---- MODULE Spec2Model ----
(***************************************************************************)
(* Capture-and-analysis pipeline of the traffic analyzer:                  *)
(*   - TrafficCapture (proxy_server.py and bin/traffic_analyzer.py): the   *)
(*     mitmproxy addon whose request/response hooks pair the two events of *)
(*     a flow and insert one row into the sqlite table `requests`;         *)
(*   - ProxyManager / TrafficAnalyzerCLI / CopilotAPIServer: the handlers  *)
(*     that read, flag or purge the table;                                 *)
(*   - CopilotAgent: the rule-based scorer.                                *)
(*                                                                         *)
(* The addon hooks are plain (non-async, non-@concurrent) methods, which   *)
(* mitmproxy runs to completion on its event loop one at a time, so each   *)
(* hook is one atomic action.  A sqlite statement followed by commit is    *)
(* one transaction.                                                        *)
(*                                                                         *)
(* Text is a sequence of tokens (a token is an indivisible chunk of        *)
(* characters); `kw in text` is "some token of text equals kw".  A byte    *)
(* string is [size, invalid, tokens]: its length in bytes, how many of     *)
(* those bytes are not valid UTF-8, and its readable tokens.               *)
(***************************************************************************)
EXTENDS Integers, Sequences, FiniteSets, TLC

VARIABLES
    impl,             \* which TrafficCapture class is loaded as the addon
    now,              \* the wall clock, as read by time.time()
    metadata,         \* flow.metadata of every flow: <<>> or <<start_time>>
    phase,            \* per flow: which hook ran last and how it ended
    requests,         \* the table `requests`: a set of rows
    sqlite_sequence,  \* AUTOINCREMENT's record of the largest id ever issued
    flowlog,          \* history, per flow: when its hooks ran and the id it was given
    hooks,            \* history: how many response hooks have run
    reply,            \* what the last handler returned to its caller
    scan              \* the security scan in progress: the ids it selected
                      \* and has yet to analyse, and what it has gathered

vars == <<impl, now, metadata, phase, requests, sqlite_sequence, flowlog, hooks, reply, scan>>

----------------------------------------------------------------------------
(* Bounds *)

NumFlows == 2
MaxClock == 1
MaxRows == 2

Flows == 1..NumFlows

----------------------------------------------------------------------------
(* Small helpers *)

Max(a, b) == IF a >= b THEN a ELSE b

RECURSIVE Digits(_)
Digits(n) == IF n < 10 THEN 1 ELSE 1 + Digits(n \div 10)

Null == "<NULL>"

\* no security scan is running
NoScan ==
    [running |-> FALSE, pending |-> <<>>, security_issues |-> <<>>,
     high_risk_requests |-> <<>>]

----------------------------------------------------------------------------
(* Text, bytes, dicts and JSON *)

\* str.lower() on one token
Lower(t) ==
    CASE t = "PASSWORD" -> "password"
      [] t = "Token" -> "token"
      [] t = "SELECT " -> "select "
      [] t = "DROP " -> "drop "
      [] t = "<SCRIPT" -> "<script"
      [] t = "OnError=" -> "onerror="
      [] t = "YES" -> "yes"
      [] t = "Authorization" -> "authorization"
      [] t = "Strict-Transport-Security" -> "strict-transport-security"
      [] t = "X-Content-Type-Options" -> "x-content-type-options"
      [] t = "X-Frame-Options" -> "x-frame-options"
      [] t = "Content-Encoding" -> "content-encoding"
      [] t = "Content-Type" -> "content-type"
      [] t = "Cache-Control" -> "cache-control"
      [] t = "Content-Security-Policy" -> "content-security-policy"
      [] OTHER -> t

\* str.upper() on one token
Upper(t) ==
    CASE t = "select " -> "SELECT "
      [] t = "drop " -> "DROP "
      [] t = "union " -> "UNION "
      [] t = "password" -> "PASSWORD"
      [] t = "<script" -> "<SCRIPT"
      [] t = "a=1" -> "A=1"
      [] OTHER -> t

LowerText(text) == [i \in 1..Len(text) |-> Lower(text[i])]
UpperText(text) == [i \in 1..Len(text) |-> Upper(text[i])]

\* kw in text
Contains(text, kw) == \E i \in 1..Len(text) : text[i] = kw

\* a byte string
Bytes(size, invalid, tokens) == [size |-> size, invalid |-> invalid, tokens |-> tokens]
NoBytes == Bytes(0, 0, <<>>)

\* a stored TEXT value: kind "text" holds decoded characters, kind
\* "placeholder" holds the too-large notice, which shows a byte count
EmptyText == [kind |-> "text", chars |-> 0, tokens |-> <<>>, shown |-> 0]

\* content.decode('utf-8', errors='ignore'): the invalid bytes are dropped
decode_ignore(content) ==
    [kind |-> "text", chars |-> content.size - content.invalid,
     tokens |-> content.tokens, shown |-> 0]

\* f"[Response too large: {len(response.content)} bytes]"
too_large(content) ==
    [kind |-> "placeholder", chars |-> 28 + Digits(content.size),
     tokens |-> <<>>, shown |-> content.size]

\* dict.get(key, default)
Get(d, key, default) == IF key \in DOMAIN d THEN d[key] ELSE default

\* truth value of a header value returned by dict.get(key)
Truthy(v) == v # Null /\ v # ""

\* json.dumps / json.loads of a dict of strings
json_dumps(d) == [valid |-> TRUE, value |-> d]
json_loads(t) == t.value

NoHeaders == [k \in {} |-> ""]

----------------------------------------------------------------------------
(* TrafficCapture *)

SizeCap == 1048576

\* proxy_server.py: request body
ps_request_body(request) ==
    IF request.content.size > 0 THEN decode_ignore(request.content) ELSE EmptyText

\* proxy_server.py: response body, with the 1MB limit
ps_response_body(response) ==
    IF response.content.size > 0
    THEN IF response.content.size < SizeCap
         THEN decode_ignore(response.content)
         ELSE too_large(response.content)
    ELSE EmptyText

\* bin/traffic_analyzer.py: request and response body
ta_body(message) ==
    IF message.content.size > 0 THEN decode_ignore(message.content) ELSE EmptyText

request_body(which, request) ==
    IF which = "proxy_server" THEN ps_request_body(request) ELSE ta_body(request)

response_body(which, response) ==
    IF which = "proxy_server" THEN ps_response_body(response) ELSE ta_body(response)

\* duration = time.time() - flow.metadata.get('start_time', time.time())
\* t1 is the reading of the left operand, t2 the reading taken for the
\* default argument (evaluated whether or not start_time is present)
Duration(meta, t1, t2) == t1 - (IF meta # <<>> THEN meta[1] ELSE t2)

\* variant: the start time kept in one slot shared by all flows
RecordStart_shared(md, f, t) == [g \in DOMAIN md |-> <<t>>]

\* flow.metadata['start_time'] = time.time()
RecordStart(md, f, t) == [md EXCEPT ![f] = <<t>>]

\* variant: INTEGER PRIMARY KEY without AUTOINCREMENT (largest present rowid + 1)
NextId_rowid(table, seq) ==
    LET present == { r.id : r \in table }
    IN  IF present = {} THEN 1
        ELSE 1 + CHOOSE m \in present : \A n \in present : n <= m

\* variant: the id generator restarts when the table is empty
NextId_restart(table, seq) == IF table = {} THEN 1 ELSE seq + 1

\* INTEGER PRIMARY KEY AUTOINCREMENT: one more than the largest id ever used
NextId(table, seq) ==
    LET present == { r.id : r \in table }
        top == IF present = {} THEN 0 ELSE CHOOSE m \in present : \A n \in present : n <= m
    IN  Max(seq, top) + 1

\* variant: the row is written before the response columns are filled in
NewRow_half_written(which, id, t3, request, response, duration) ==
    [id |-> id,
     timestamp |-> t3,
     method |-> request.method,
     url |-> request.url,
     host |-> request.host,
     path |-> request.path,
     headers |-> json_dumps(request.headers),
     body |-> request_body(which, request),
     response_status |-> 0,
     response_headers |-> json_dumps(NoHeaders),
     response_body |-> EmptyText,
     duration |-> duration,
     protocol |-> request.scheme,
     analyzed |-> FALSE,
     notes |-> Null]

\* the row written by INSERT INTO requests (...) VALUES (...); the columns
\* analyzed and notes are not listed and take their defaults
NewRow(which, id, t3, request, response, duration) ==
    [id |-> id,
     timestamp |-> t3,
     method |-> request.method,
     url |-> request.url,
     host |-> request.host,
     path |-> request.path,
     headers |-> json_dumps(request.headers),
     body |-> request_body(which, request),
     response_status |-> response.status_code,
     response_headers |-> json_dumps(response.headers),
     response_body |-> response_body(which, response),
     duration |-> duration,
     protocol |-> request.scheme,
     analyzed |-> FALSE,
     notes |-> Null]

\* variant: a failed commit is not noticed
HookOutcome_commit_unnoticed(which, storage) ==
    IF storage \in {"ok", "commit"} THEN "stored" ELSE "dropped"

\* how the hook ends when sqlite fails at the given step
HookOutcome(which, storage) ==
    CASE storage = "ok" -> "stored"
      [] storage = "connect" /\ which = "traffic_analyzer" -> "raised"
      [] OTHER -> "dropped"

----------------------------------------------------------------------------
(* CopilotAgent: the rule-based scorer *)

\* variant: every finding is entered twice
Opt_repeat(cond, msg) == IF cond THEN <<msg, msg>> ELSE <<>>

\* issues.append(msg) under its condition
Opt(cond, msg) == IF cond THEN <<msg>> ELSE <<>>

\* variant: the keyword list without "password"
sensitive_keywords_short == {"token", "secret", "api_key", "apikey"}

sensitive_keywords == {"password", "token", "secret", "api_key", "apikey"}
sql_patterns == {"SELECT ", "INSERT ", "UPDATE ", "DELETE ", "DROP ", "UNION "}
xss_patterns == {"<script", "javascript:", "onerror=", "onload="}
api_versions == {"/v1/", "/v2/", "/v3/"}

\* [h.lower() for h in headers.keys()]
LowerKeys(headers) == { Lower(h) : h \in DOMAIN headers }

\* auth_value.startswith('Basic ')
startswith_Basic(v) == v \in {"Basic ", "Basic dXNlcg=="}

\* 'auth' in h.lower()
contains_auth(h) == Lower(h) \in {"authorization", "proxy-authorization", "x-auth-token"}

\* variant: over plain http the response headers are not inspected
_check_security_http_first(req, headers, response_headers) ==
    LET url_lower == LowerText(req.url)
        auth_value == Get(headers, "Authorization", Get(headers, "authorization", ""))
        body == req.body.tokens
    IN  Opt(\E keyword \in sensitive_keywords : Contains(url_lower, keyword),
            "Sensitive data detected in URL (should use POST body instead)")
        \o (IF req.protocol = "http"
            THEN <<"Insecure HTTP protocol (should use HTTPS)">>
            ELSE Opt(~Truthy(Get(response_headers, "strict-transport-security", Null)),
                     "Missing HSTS header (Strict-Transport-Security)")
                 \o Opt(~Truthy(Get(response_headers, "x-content-type-options", Null)),
                        "Missing X-Content-Type-Options header")
                 \o Opt(~Truthy(Get(response_headers, "x-frame-options", Null)),
                        "Missing X-Frame-Options header (clickjacking protection)"))
        \o Opt("authorization" \in LowerKeys(headers) /\ startswith_Basic(auth_value),
               "Basic authentication detected (consider using OAuth or JWT)")
        \o Opt(\E pattern \in sql_patterns : Contains(UpperText(body), pattern),
               "Potential SQL injection attempt detected")
        \o Opt(\E pattern \in xss_patterns : Contains(LowerText(body), pattern),
               "Potential XSS payload detected")

\* CopilotAgent._check_security
_check_security(req, headers, response_headers) ==
    LET url_lower == LowerText(req.url)
        auth_value == Get(headers, "Authorization", Get(headers, "authorization", ""))
        body == req.body.tokens
    IN  Opt(\E keyword \in sensitive_keywords : Contains(url_lower, keyword),
            "Sensitive data detected in URL (should use POST body instead)")
        \o Opt(~Truthy(Get(response_headers, "strict-transport-security", Null)),
               "Missing HSTS header (Strict-Transport-Security)")
        \o Opt(~Truthy(Get(response_headers, "x-content-type-options", Null)),
               "Missing X-Content-Type-Options header")
        \o Opt(~Truthy(Get(response_headers, "x-frame-options", Null)),
               "Missing X-Frame-Options header (clickjacking protection)")
        \o Opt(req.protocol = "http", "Insecure HTTP protocol (should use HTTPS)")
        \o Opt("authorization" \in LowerKeys(headers) /\ startswith_Basic(auth_value),
               "Basic authentication detected (consider using OAuth or JWT)")
        \o Opt(\E pattern \in sql_patterns : Contains(UpperText(body), pattern),
               "Potential SQL injection attempt detected")
        \o Opt(\E pattern \in xss_patterns : Contains(LowerText(body), pattern),
               "Potential XSS payload detected")

\* CopilotAgent._check_performance
_check_performance(req) ==
    (IF req.duration > 5 THEN <<"Very slow request - investigate server performance">>
     ELSE IF req.duration > 2 THEN <<"Slow request - consider optimization">>
     ELSE <<>>)
    \o Opt(req.response_body.chars > 1000000,
           "Large response size - consider pagination or compression")

\* CopilotAgent._check_best_practices
_check_best_practices(req, headers, response_headers) ==
    Opt(/\ req.method = "GET"
        /\ ~Truthy(Get(response_headers, "cache-control", Null))
        /\ ~Truthy(Get(response_headers, "etag", Null)),
        "Consider adding cache headers for GET requests")
    \o Opt("content-encoding" \notin LowerKeys(response_headers),
           "Response is not compressed - enable gzip/brotli compression")
    \o Opt(Contains(req.path, "/api/") /\ ~\E v \in api_versions : Contains(req.path, v),
           "API endpoint should include version number")
    \o Opt(Get(response_headers, "access-control-allow-origin", Null) = "*",
           "CORS allows all origins - consider restricting to specific domains")

\* CopilotAgent._generate_summary: the parts the fixed-format sentence is built from
_generate_summary(req, vulnerabilities, recommendations) ==
    LET status == req.response_status
    IN  [method |-> req.method, url |-> req.url,
         outcome |-> IF status = 0 THEN "none"
                     ELSE IF 200 <= status /\ status < 300 THEN "succeeded"
                     ELSE IF 300 <= status /\ status < 400 THEN "redirected"
                     ELSE IF 400 <= status /\ status < 500 THEN "client error"
                     ELSE "server error",
         ms |-> req.duration * 1000,
         issues |-> Len(vulnerabilities),
         suggestions |-> Len(recommendations)]

\* variant: recommendations are charged against the score as well
RequestAnalysis_charge_all(request_id, req) ==
    LET headers == json_loads(req.headers)
        response_headers == json_loads(req.response_headers)
        vulnerabilities == _check_security(req, headers, response_headers)
        recommendations == _check_performance(req)
                           \o _check_best_practices(req, headers, response_headers)
    IN  [raised |-> "",
         request_id |-> request_id,
         security_score |-> Max(0, 100 - (Len(vulnerabilities) + Len(recommendations)) * 10),
         vulnerabilities |-> vulnerabilities,
         recommendations |-> recommendations,
         summary |-> _generate_summary(req, vulnerabilities, recommendations),
         insights |-> [method |-> req.method,
                       status_code |-> req.response_status,
                       duration_ms |-> req.duration * 1000,
                       has_auth |-> \E h \in DOMAIN headers : contains_auth(h),
                       content_type |-> Get(headers, "content-type", "unknown"),
                       size_bytes |-> req.body.chars]]

\* the body of CopilotAgent.analyze_request once the row is fetched
RequestAnalysis(request_id, req) ==
    LET headers == json_loads(req.headers)
        response_headers == json_loads(req.response_headers)
        security_issues == _check_security(req, headers, response_headers)
        vulnerabilities == security_issues
        security_score == 100 - Len(security_issues) * 10
        perf_issues == _check_performance(req)
        best_practices == _check_best_practices(req, headers, response_headers)
        recommendations == perf_issues \o best_practices
    IN  [raised |-> "",
         request_id |-> request_id,
         security_score |-> Max(0, security_score),
         vulnerabilities |-> vulnerabilities,
         recommendations |-> recommendations,
         summary |-> _generate_summary(req, vulnerabilities, recommendations),
         insights |-> [method |-> req.method,
                       status_code |-> req.response_status,
                       duration_ms |-> req.duration * 1000,
                       has_auth |-> \E h \in DOMAIN headers : contains_auth(h),
                       content_type |-> Get(headers, "content-type", "unknown"),
                       size_bytes |-> req.body.chars]]

\* SELECT * FROM requests WHERE id = ?  (fetchone)
SelectById(table, id) == { r \in table : r.id = id }

\* CopilotAgent.analyze_request: the analysis, or the exception it raises
CopilotAgent_analyze_request(table, request_id) ==
    LET found == SelectById(table, request_id)
        req == CHOOSE r \in found : TRUE
    IN  IF found = {} THEN [raised |-> "ValueError: Request not found"]
        ELSE IF ~req.headers.valid \/ ~req.response_headers.valid
        THEN [raised |-> "JSONDecodeError"]
        ELSE RequestAnalysis(request_id, req)

----------------------------------------------------------------------------
(* What the interception engine can deliver *)

Hdr(names, value) == [k \in names |-> value]

BasicAuth == [k \in {"Authorization"} |-> "Basic dXNlcg=="]

SecureHeaders ==
    Hdr({"Strict-Transport-Security", "X-Content-Type-Options", "X-Frame-Options"}, "on")

Request(method, scheme, url, path, headers, content) ==
    [method |-> method, scheme |-> scheme, url |-> url, host |-> "example.com",
     path |-> path, headers |-> headers, content |-> content]

Response(status_code, headers, content) ==
    [status_code |-> status_code, headers |-> headers, content |-> content]

\* the request/response pairs of the capture specification
Exchanges ==
    { [req |-> Request("GET", "http",
                       <<"http://example.com", "/login", "?", "password", "=123">>,
                       <<"/login", "?", "password", "=123">>, NoHeaders, NoBytes),
       resp |-> Response(200, NoHeaders, Bytes(SizeCap + 1, 1, <<"dump">>))],
      [req |-> Request("POST", "https", <<"https://example.com", "/api/", "items">>,
                       <<"/api/", "items">>, BasicAuth, Bytes(SizeCap + 1, 0, <<"a=1">>)),
       resp |-> Response(404, SecureHeaders, Bytes(5, 2, <<"page">>))] }

\* history entry of a flow whose response hook has not run
NoLog == [requested |-> <<>>, arrival |-> <<>>, order |-> 0, id |-> <<>>]

Storage == {"ok", "connect", "insert", "commit"}

Impls == {"proxy_server", "traffic_analyzer"}

----------------------------------------------------------------------------
(* State after construction: init_database() has created an empty table *)

Init ==
    /\ impl \in Impls
    /\ now = 0
    /\ metadata = [f \in Flows |-> <<>>]
    /\ phase = [f \in Flows |-> "idle"]
    /\ requests = {}
    /\ sqlite_sequence = 0
    /\ flowlog = [f \in Flows |-> NoLog]
    /\ hooks = 0
    /\ reply = [op |-> "none"]
    /\ scan = NoScan

\* time passes between two hooks or handlers; the clock is taken never to
\* run backwards (time.time() readings are non-decreasing)
Tick ==
    /\ now < MaxClock
    /\ now' = now + 1
    /\ UNCHANGED <<impl, metadata, phase, requests, sqlite_sequence, flowlog, hooks, reply, scan>>

\* TrafficCapture.request
request(f) ==
    /\ phase[f] = "idle"
    /\ metadata' = RecordStart(metadata, f, now)
    /\ phase' = [phase EXCEPT ![f] = "started"]
    /\ flowlog' = [flowlog EXCEPT ![f].requested = <<now>>]
    /\ UNCHANGED <<impl, now, requests, sqlite_sequence, hooks, reply, scan>>

\* TrafficCapture.response.  The hook reads the clock three times: t1 and t2
\* for the duration, t3 for the timestamp column; d1 and d2 are the time
\* that passes between the readings.  A flow still "idle" is one whose
\* request hook never ran (the addon was loaded while it was in flight).
response(f, req, resp, d1, d2, storage) ==
    LET t1 == now
        t2 == now + d1
        t3 == now + d1 + d2
        duration == Duration(metadata[f], t1, t2)
        id == NextId(requests, sqlite_sequence)
        row == NewRow(impl, id, t3, req, resp, duration)
    IN  /\ phase[f] \in {"idle", "started"}
        /\ t3 <= MaxClock
        /\ phase' = [phase EXCEPT ![f] = HookOutcome(impl, storage)]
        /\ IF storage = "ok"
           THEN /\ requests' = requests \cup {row}
                /\ sqlite_sequence' = id
           ELSE UNCHANGED <<requests, sqlite_sequence>>
        /\ hooks' = hooks + 1
        /\ flowlog' = [flowlog EXCEPT ![f] =
                          [requested |-> flowlog[f].requested,
                           arrival |-> <<t1>>, order |-> hooks + 1,
                           id |-> IF storage = "ok" THEN <<id>> ELSE <<>>]]
        /\ now' = IF storage = "connect" THEN t2 ELSE t3
        /\ UNCHANGED <<impl, metadata, reply, scan>>

\* variant: the DELETE spares the row stored last
clear_traffic_spare_last ==
    /\ requests' = { r \in requests : \A q \in requests : q.id <= r.id }
    /\ reply' = [op |-> "clear_traffic", status |-> 200]
    /\ UNCHANGED <<impl, now, metadata, phase, sqlite_sequence, flowlog, hooks, scan>>

\* ProxyManager.clear_traffic
clear_traffic ==
    /\ requests' = {}
    /\ reply' = [op |-> "clear_traffic", status |-> 200]
    /\ UNCHANGED <<impl, now, metadata, phase, sqlite_sequence, flowlog, hooks, scan>>

\* variant: any answer that is not "no" counts as consent
clear_database_unless_no(answer) ==
    /\ requests' = IF Lower(answer) # "no" THEN {} ELSE requests
    /\ reply' = [op |-> "clear_database",
                 status |-> IF Lower(answer) # "no" THEN "cleared" ELSE "cancelled"]
    /\ UNCHANGED <<impl, now, metadata, phase, sqlite_sequence, flowlog, hooks, scan>>

\* TrafficAnalyzerCLI.clear_database
clear_database(answer) ==
    /\ requests' = IF Lower(answer) = "yes" THEN {} ELSE requests
    /\ reply' = [op |-> "clear_database",
                 status |-> IF Lower(answer) = "yes" THEN "cleared" ELSE "cancelled"]
    /\ UNCHANGED <<impl, now, metadata, phase, sqlite_sequence, flowlog, hooks, scan>>

----------------------------------------------------------------------------
(* Handlers that read or flag stored rows *)

RequestIds == 1..NumFlows

\* variant: the analysis pass also drops the stored response body
MarkAnalyzed_strip(table, id) ==
    { IF r.id = id THEN [r EXCEPT !.analyzed = TRUE, !.response_body = EmptyText] ELSE r :
        r \in table }

\* UPDATE requests SET analyzed = 1 WHERE id = ?
MarkAnalyzed(table, id) ==
    { IF r.id = id THEN [r EXCEPT !.analyzed = TRUE] ELSE r : r \in table }

\* variant: DESC is dropped, the rows always come oldest first
RECURSIVE OrderByTimestamp_asc(_, _)
OrderByTimestamp_asc(table, desc) ==
    IF table = {} THEN {<<>>}
    ELSE LET first == { r \in table : \A q \in table : q.timestamp >= r.timestamp }
         IN  UNION { { <<r>> \o s : s \in OrderByTimestamp_asc(table \ {r}, desc) } :
                     r \in first }

\* SELECT ... ORDER BY timestamp [DESC]: every order sqlite may return
\* (rows with equal timestamps come in either order), built front to back
RECURSIVE OrderByTimestamp(_, _)
OrderByTimestamp(table, desc) ==
    IF table = {} THEN {<<>>}
    ELSE LET first == { r \in table : \A q \in table :
                          IF desc THEN q.timestamp <= r.timestamp
                                  ELSE q.timestamp >= r.timestamp }
         IN  UNION { { <<r>> \o s : s \in OrderByTimestamp(table \ {r}, desc) } :
                     r \in first }

\* variant: the limit counts one row too few
SqlLimit_short(s, n) ==
    IF n < 0 THEN s ELSE SubSeq(s, 1, IF n - 1 < Len(s) THEN n - 1 ELSE Len(s))

\* LIMIT n: the first n rows; a negative n means no limit
SqlLimit(s, n) ==
    IF n < 0 THEN s ELSE SubSeq(s, 1, IF n < Len(s) THEN n ELSE Len(s))

\* SELECT ... WHERE ... ORDER BY timestamp [DESC] LIMIT n over the rows selected
SelectOrdered(selected, desc, n) ==
    { SqlLimit(s, n) : s \in OrderByTimestamp(selected, desc) }

\* the parts of a host name a LIKE pattern %q% can hit
HostParts(host) ==
    CASE host = "example.com" -> {"example.com", "example", ".com", "com"}
      [] host = "learn.zybooks.com" ->
           {"learn.zybooks.com", "learn", "zybooks", "zybooks.com", ".com", "com"}
      [] OTHER -> {host}

\* host LIKE '%q%' (LIKE ignores ASCII case)
like_host(host, q) == Lower(q) \in HostParts(host)

\* column LIKE '%q%' for a text column (LIKE ignores ASCII case)
like_text(tokens, q) == \E i \in 1..Len(tokens) : Lower(tokens[i]) = Lower(q)

\* ProxyManager.analyze_request
ProxyManager_analyze_request(request_id) ==
    LET found == SelectById(requests, request_id)
        req_data == CHOOSE r \in found : TRUE
        headers == json_loads(req_data.headers)
        analysis ==
            [summary |-> [method |-> req_data.method, url |-> req_data.url],
             status |-> req_data.response_status,
             security_notes |-> Opt("authorization" \in LowerKeys(headers),
                                    "Contains authorization header"),
             performance |-> [duration_ms |-> req_data.duration * 1000,
                              rating |-> IF req_data.duration < 1 THEN "good" ELSE "slow"],
             suggestions |-> <<"Request captured successfully",
                               "Use Copilot agent mode for deeper analysis">>]
    IN  /\ IF found = {}
           THEN /\ reply' = [op |-> "ProxyManager.analyze_request", status |-> 404,
                             error |-> "Request not found"]
                /\ UNCHANGED requests
           ELSE IF ~req_data.headers.valid
           THEN /\ reply' = [op |-> "ProxyManager.analyze_request", status |-> 500,
                             error |-> "JSONDecodeError"]
                /\ UNCHANGED requests
           ELSE /\ reply' = [op |-> "ProxyManager.analyze_request", status |-> 200,
                             request_id |-> request_id, analysis |-> analysis]
                /\ requests' = MarkAnalyzed(requests, request_id)
        /\ UNCHANGED <<impl, now, metadata, phase, sqlite_sequence, flowlog, hooks, scan>>

\* CopilotAPIServer.analyze_request
CopilotAPIServer_analyze_request(request_id) ==
    LET analysis == CopilotAgent_analyze_request(requests, request_id)
    IN  /\ reply' = IF analysis.raised = ""
                    THEN [op |-> "CopilotAPIServer.analyze_request", status |-> 200,
                          success |-> TRUE, request_id |-> request_id,
                          analysis |-> [summary |-> analysis.summary,
                                        security_score |-> analysis.security_score,
                                        vulnerabilities |-> analysis.vulnerabilities,
                                        recommendations |-> analysis.recommendations,
                                        insights |-> analysis.insights]]
                    ELSE [op |-> "CopilotAPIServer.analyze_request", status |-> 500,
                          success |-> FALSE, request_id |-> request_id,
                          error |-> analysis.raised]
        /\ UNCHANGED <<impl, now, metadata, phase, requests, sqlite_sequence, flowlog, hooks, scan>>

\* ProxyManager.get_request_detail
get_request_detail(request_id) ==
    LET found == SelectById(requests, request_id)
    IN  /\ reply' = IF found = {}
                    THEN [op |-> "get_request_detail", status |-> 404,
                          error |-> "Request not found"]
                    ELSE [op |-> "get_request_detail", status |-> 200,
                          row |-> CHOOSE r \in found : TRUE]
        /\ UNCHANGED <<impl, now, metadata, phase, requests, sqlite_sequence, flowlog, hooks, scan>>

\* CopilotAPIServer.replay_request
replay_request(request_id) ==
    LET found == SelectById(requests, request_id)
        req_data == CHOOSE r \in found : TRUE
    IN  /\ reply' = IF found = {}
                    THEN [op |-> "replay_request", status |-> 404, success |-> FALSE,
                          error |-> "Request not found"]
                    ELSE IF ~req_data.headers.valid
                    THEN [op |-> "replay_request", status |-> 500, success |-> FALSE,
                          error |-> "JSONDecodeError"]
                    ELSE [op |-> "replay_request", status |-> 200, success |-> TRUE,
                          request |-> [method |-> req_data.method, url |-> req_data.url,
                                       headers |-> json_loads(req_data.headers),
                                       body |-> req_data.body]]
        /\ UNCHANGED <<impl, now, metadata, phase, requests, sqlite_sequence, flowlog, hooks, scan>>

\* the JSON bodies a client may post to modify_and_replay
Modifications ==
    { [k \in {} |-> <<>>],
      [k \in {"url"} |-> <<"https://example.org", "/other">>],
      [k \in {"body"} |-> [kind |-> "text", chars |-> 3, tokens |-> <<"b=2">>, shown |-> 0]] }

\* CopilotAPIServer.modify_and_replay
modify_and_replay(request_id, modifications) ==
    LET found == SelectById(requests, request_id)
        req_data == CHOOSE r \in found : TRUE
        original == [url |-> req_data.url, headers |-> json_loads(req_data.headers),
                     body |-> req_data.body]
        modified_request ==
            [method |-> req_data.method,
             url |-> Get(modifications, "url", req_data.url),
             headers |-> Get(modifications, "headers", json_loads(req_data.headers)),
             body |-> Get(modifications, "body", req_data.body)]
    IN  /\ reply' = IF found = {}
                    THEN [op |-> "modify_and_replay", status |-> 404, success |-> FALSE,
                          error |-> "Request not found"]
                    ELSE IF ~req_data.headers.valid
                    THEN [op |-> "modify_and_replay", status |-> 500, success |-> FALSE,
                          error |-> "JSONDecodeError"]
                    ELSE [op |-> "modify_and_replay", status |-> 200, success |-> TRUE,
                          original |-> original, modified |-> modified_request]
        /\ UNCHANGED <<impl, now, metadata, phase, requests, sqlite_sequence, flowlog, hooks, scan>>

\* CopilotAPIServer.export_json
export_json ==
    /\ \E traffic \in OrderByTimestamp(requests, TRUE) :
          reply' = [op |-> "export_json", status |-> 200, success |-> TRUE,
                    count |-> Len(traffic), traffic |-> traffic]
    /\ UNCHANGED <<impl, now, metadata, phase, requests, sqlite_sequence, flowlog, hooks, scan>>

\* one entry of the HAR log built by CopilotAPIServer.export_har
HarEntry(req) ==
    [startedDateTime |-> req.timestamp,
     time |-> req.duration * 1000,
     request |-> [method |-> req.method, url |-> req.url,
                  headers |-> json_loads(req.headers), postData |-> req.body],
     response |-> [status |-> req.response_status,
                   headers |-> json_loads(req.response_headers),
                   content |-> req.response_body]]

\* CopilotAPIServer.export_har
export_har ==
    /\ \E rows \in OrderByTimestamp(requests, FALSE) :
          reply' = IF \E r \in requests : ~r.headers.valid \/ ~r.response_headers.valid
                   THEN [op |-> "export_har", status |-> 500, success |-> FALSE,
                         error |-> "JSONDecodeError"]
                   ELSE [op |-> "export_har", status |-> 200,
                         entries |-> [i \in 1..Len(rows) |-> HarEntry(rows[i])]]
    /\ UNCHANGED <<impl, now, metadata, phase, requests, sqlite_sequence, flowlog, hooks, scan>>

Answers == {"yes", "YES", "no", "y", ""}

Next ==
    \/ Tick
    \/ \E f \in Flows : request(f)
    \/ \E f \in Flows, x \in Exchanges, d1 \in 0..1, d2 \in 0..1, storage \in Storage :
            response(f, x.req, x.resp, d1, d2, storage)
    \/ clear_traffic

Spec == Init /\ [][Next]_vars

----------------------------------------------------------------------------
(* The handlers over a store that holds one captured exchange *)

ApiUrls ==
    { <<"http://example.com", "/login", "?", "password", "=123">>,
      <<"https://example.com", "/api/", "v?", "Token", "=abc">>,
      <<"https://example.com", "/api/", "/v1/", "items">> }

ApiRequestHeaders ==
    { NoHeaders, BasicAuth,
      [k \in {"authorization"} |-> "Bearer abc"] }

ApiRequestBodies ==
    { NoBytes, Bytes(9, 0, <<"q=", "select ", "1">>), Bytes(12, 2, <<"<SCRIPT", "x">>),
      Bytes(20, 0, <<"drop ", "<SCRIPT", "OnError=">>) }

ApiRequests ==
    { Request(IF content = NoBytes THEN "GET" ELSE "POST", scheme, url,
              SubSeq(url, 2, Len(url)), headers, content) :
        scheme \in {"http", "https"}, url \in ApiUrls,
        headers \in ApiRequestHeaders, content \in ApiRequestBodies }

ApiResponseHeaders ==
    { NoHeaders, SecureHeaders,
      Hdr({"strict-transport-security", "x-content-type-options", "x-frame-options"}, "on"),
      Hdr({"x-frame-options", "cache-control", "Content-Encoding"}, ""),
      Hdr({"access-control-allow-origin"}, "*") }

ApiResponses ==
    { Response(200, headers, NoBytes) : headers \in ApiResponseHeaders }
    \cup { Response(500, NoHeaders, Bytes(1000001, 0, <<"page">>)) }

\* seconds between the request hook and the response hook
ApiDurations == {0, 3, 6}

\* the state after request(1) at time 0 and a successful response(1, ...)
InitApi ==
    \E req \in ApiRequests, resp \in ApiResponses, t1 \in ApiDurations :
        /\ impl \in Impls
        /\ now = t1
        /\ metadata = RecordStart([f \in Flows |-> <<>>], 1, 0)
        /\ phase = [f \in Flows |-> IF f = 1 THEN "stored" ELSE "idle"]
        /\ requests = {NewRow(impl, NextId({}, 0), t1, req, resp, Duration(<<0>>, t1, t1))}
        /\ sqlite_sequence = NextId({}, 0)
        /\ flowlog = [f \in Flows |-> IF f = 1
                                      THEN [requested |-> <<0>>, arrival |-> <<t1>>,
                                            order |-> 1,
                                            id |-> <<NextId({}, 0)>>]
                                      ELSE NoLog]
        /\ hooks = 1
        /\ reply = [op |-> "none"]
        /\ scan = NoScan

NextApi ==
    \/ \E request_id \in RequestIds : ProxyManager_analyze_request(request_id)
    \/ \E request_id \in RequestIds : CopilotAPIServer_analyze_request(request_id)
    \/ \E request_id \in RequestIds : get_request_detail(request_id)
    \/ \E request_id \in RequestIds : replay_request(request_id)
    \/ \E request_id \in RequestIds, modifications \in Modifications :
          modify_and_replay(request_id, modifications)
    \/ export_json
    \/ export_har
    \/ clear_traffic
    \/ \E answer \in Answers : clear_database(answer)

SpecApi == InitApi /\ [][NextApi]_vars

----------------------------------------------------------------------------
(* Listing, searching and exporting a store found on disk *)

SearchLimit == 50
ListLimit == 1000

\* int(s) on a query-string value: the strings that parse, with their values
IntOf ==
    ("-1" :> -1) @@ ("1" :> 1) @@ ("100" :> 100) @@ ("200" :> 200) @@ ("500" :> 500)

\* TrafficAnalyzerCLI._host_clause_and_params: the patterns of the
\* "host LIKE ?" clauses, which the WHERE clause joins with AND
_host_clause_and_params(host, only_zybooks) ==
    (IF Truthy(host) THEN <<host>> ELSE <<>>)
    \o (IF only_zybooks THEN <<"zybooks">> ELSE <<>>)

\* the rows a WHERE clause built by _host_clause_and_params lets through
HostWhere(table, params) ==
    { r \in table : \A i \in 1..Len(params) : like_host(r.host, params[i]) }

\* (url LIKE ? OR body LIKE ? OR response_body LIKE ? )
search_clause(r, query) ==
    \/ like_text(r.url, query)
    \/ like_text(r.body.tokens, query)
    \/ like_text(r.response_body.tokens, query)

\* variant: the supplied conditions are joined with OR
QueryWhere_any(r, method, status, host) ==
    \/ (Truthy(method) /\ r.method = method)
    \/ (Truthy(status) /\ r.response_status = IntOf[status])
    \/ (Truthy(host) /\ like_host(r.host, host))

\* WHERE 1=1 [AND method = ?] [AND response_status = ?] [AND host LIKE ?]
QueryWhere(r, method, status, host) ==
    /\ (Truthy(method) => r.method = method)
    /\ (Truthy(status) => r.response_status = IntOf[status])
    /\ (Truthy(host) => like_host(r.host, host))

SummaryColumns ==
    {"id", "timestamp", "method", "url", "host", "path", "response_status",
     "duration", "protocol"}

\* ProxyManager.get_requests
get_requests ==
    /\ \E rows \in SelectOrdered(requests, TRUE, ListLimit) :
          reply' = [op |-> "get_requests", status |-> 200,
                    requests |-> [i \in 1..Len(rows) |->
                                    [c \in SummaryColumns |-> rows[i][c]]]]
    /\ UNCHANGED <<impl, now, metadata, phase, requests, sqlite_sequence, flowlog, hooks, scan>>

\* CopilotAPIServer.query_requests; the arguments are the query-string
\* values, Null when absent
query_requests(method, status, host, limit) ==
    LET args == [method |-> method, status |-> status, host |-> host, limit |-> limit]
        limit_text == IF limit = Null THEN "100" ELSE limit
        selected == { r \in requests : QueryWhere(r, method, status, host) }
    IN  /\ IF limit_text \notin DOMAIN IntOf \/ (Truthy(status) /\ status \notin DOMAIN IntOf)
           THEN reply' = [op |-> "query_requests", args |-> args, status |-> 500,
                          success |-> FALSE, error |-> "ValueError"]
           ELSE \E results \in SelectOrdered(selected, TRUE, IntOf[limit_text]) :
                   reply' = [op |-> "query_requests", args |-> args, status |-> 200,
                             success |-> TRUE, count |-> Len(results),
                             requests |-> results]
        /\ UNCHANGED <<impl, now, metadata, phase, requests, sqlite_sequence, flowlog, hooks, scan>>

\* TrafficAnalyzerCLI.list_requests, as main calls it for `list`
list_requests(limit, host, only_zybooks) ==
    LET params == _host_clause_and_params(host, only_zybooks)
    IN  /\ \E rows \in SelectOrdered(HostWhere(requests, params), TRUE, limit) :
              reply' = [op |-> "list_requests",
                        args |-> [limit |-> limit, host |-> host, zybooks |-> only_zybooks],
                        count |-> Len(rows), rows |-> rows]
        /\ UNCHANGED <<impl, now, metadata, phase, requests, sqlite_sequence, flowlog, hooks, scan>>

\* TrafficAnalyzerCLI.search, as main calls it for `search`: main hands over
\* the query only, so a --host given on the command line gets no further
search(query, host, only_zybooks) ==
    LET host_params == _host_clause_and_params(Null, only_zybooks)
        selected == { r \in HostWhere(requests, host_params) : search_clause(r, query) }
    IN  /\ \E rows \in SelectOrdered(selected, TRUE, SearchLimit) :
              reply' = [op |-> "search",
                        args |-> [query |-> query, host |-> host, zybooks |-> only_zybooks],
                        count |-> Len(rows), rows |-> rows]
        /\ UNCHANGED <<impl, now, metadata, phase, requests, sqlite_sequence, flowlog, hooks, scan>>

\* TrafficAnalyzerCLI.get_stats; the average is shown in whole milliseconds
get_stats(only_zybooks) ==
    LET selected == HostWhere(requests, _host_clause_and_params(Null, only_zybooks))
        ids == { r.id : r \in selected }
        row(i) == CHOOSE r \in selected : r.id = i
        sum[S \in SUBSET ids] ==
            IF S = {} THEN 0
            ELSE LET i == CHOOSE i \in S : TRUE IN row(i).duration + sum[S \ {i}]
    IN  /\ reply' = [op |-> "get_stats", args |-> [zybooks |-> only_zybooks],
                     total |-> Cardinality(selected),
                     unique_hosts |-> Cardinality({ r.host : r \in selected }),
                     methods |-> [m \in { r.method : r \in selected } |->
                                    Cardinality({ r \in selected : r.method = m })],
                     avg_duration_ms |-> IF selected = {} THEN 0
                                         ELSE (sum[ids] * 1000) \div Cardinality(selected)]
        /\ UNCHANGED <<impl, now, metadata, phase, requests, sqlite_sequence, flowlog, hooks, scan>>

\* one entry of the HAR log built by TrafficAnalyzerCLI.export_har
CliHarEntry(row) ==
    [startedDateTime |-> row.timestamp,
     time |-> row.duration * 1000,
     request |-> [method |-> row.method, url |-> row.url,
                  headers |-> json_loads(row.headers), bodySize |-> row.body.chars],
     response |-> [status |-> row.response_status,
                   headers |-> json_loads(row.response_headers),
                   bodySize |-> row.response_body.chars]]

\* TrafficAnalyzerCLI.export_har, as main calls it for `export`
TrafficAnalyzerCLI_export_har(limit, only_zybooks) ==
    LET args == [limit |-> limit, zybooks |-> only_zybooks]
        selected == HostWhere(requests, _host_clause_and_params(Null, only_zybooks))
    IN  /\ \E rows \in SelectOrdered(selected, TRUE, limit) :
              reply' = IF \E i \in 1..Len(rows) :
                             ~rows[i].headers.valid \/ ~rows[i].response_headers.valid
                       THEN [op |-> "cli_export_har", args |-> args,
                             error |-> "JSONDecodeError"]
                       ELSE [op |-> "cli_export_har", args |-> args,
                             exported |-> Len(rows),
                             entries |-> [i \in 1..Len(rows) |-> CliHarEntry(rows[i])]]
        /\ UNCHANGED <<impl, now, metadata, phase, requests, sqlite_sequence, flowlog, hooks, scan>>

\* exchanges found in the store: request, response and measured duration
StoreExchanges ==
    { [req |-> Request("GET", "http",
                       <<"http://example.com", "/login", "?", "password", "=123">>,
                       <<"/login", "?", "password", "=123">>, NoHeaders, NoBytes),
       resp |-> Response(200, NoHeaders, Bytes(2, 0, <<"ok">>)),
       duration |-> 0],
      [req |-> [Request("POST", "https",
                        <<"https://learn.zybooks.com", "/api/", "v1/", "items">>,
                        <<"/api/", "v1/", "items">>, BasicAuth, Bytes(3, 0, <<"a=1">>))
                  EXCEPT !.host = "learn.zybooks.com"],
       resp |-> Response(500, SecureHeaders, Bytes(14, 0, <<"bad ", "PASSWORD">>)),
       duration |-> 3],
      [req |-> [Request("GET", "https", <<"https://learn.zybooks.com", "/index">>,
                        <<"/index">>, NoHeaders, NoBytes)
                  EXCEPT !.host = "learn.zybooks.com"],
       resp |-> Response(200, NoHeaders, Bytes(4, 0, <<"page">>)),
       duration |-> 1] }

\* every table the capture can have left in the database file: ids 1..k in
\* insertion order, timestamps never decreasing along them
StoreTables(which) ==
    UNION { { { NewRow(which, i, t[i], x[i].req, x[i].resp, x[i].duration) : i \in 1..k } :
                x \in [1..k -> StoreExchanges],
                t \in { u \in [1..k -> 0..MaxClock] :
                          \A i, j \in 1..k : i < j => u[i] <= u[j] } } :
            k \in 0..MaxRows }

\* the handlers start on a database file written by earlier capture runs
\* (the bodies here are under the size cap, where both captures write the
\* same row, so one of them stands for both)
InitStore ==
    /\ impl = "proxy_server"
    /\ now = MaxClock
    /\ metadata = [f \in Flows |-> <<>>]
    /\ phase = [f \in Flows |-> "idle"]
    /\ requests \in StoreTables(impl)
    /\ sqlite_sequence = Cardinality(requests)
    /\ flowlog = [f \in Flows |-> NoLog]
    /\ hooks = 0
    /\ reply = [op |-> "none"]
    /\ scan = NoScan

\* values of the query string of GET /copilot/query/requests
QueryMethods == {Null, "GET", "POST"}
QueryStatuses == {Null, "500", "abc"}
QueryHosts == {Null, "zybooks", "COM"}
QueryLimits == {Null, "1"}

\* values of the command line's --limit, --host and search query
CliLimits == {-1, 1, MaxRows - 1}
CliHosts == {Null, "zybooks"}
SearchQueries == {"password", "items", "none"}

NextStore ==
    \/ get_requests
    \/ \E method \in QueryMethods, status \in QueryStatuses, host \in QueryHosts,
          limit \in QueryLimits : query_requests(method, status, host, limit)
    \/ \E limit \in CliLimits, host \in CliHosts, only_zybooks \in BOOLEAN :
          list_requests(limit, host, only_zybooks)
    \/ \E query \in SearchQueries, host \in CliHosts, only_zybooks \in BOOLEAN :
          search(query, host, only_zybooks)
    \/ \E only_zybooks \in BOOLEAN : get_stats(only_zybooks)
    \/ \E limit \in CliLimits, only_zybooks \in BOOLEAN :
          TrafficAnalyzerCLI_export_har(limit, only_zybooks)
    \/ export_har
    \/ export_json
    \/ clear_traffic
    \/ \E answer \in Answers : clear_database(answer)

SpecStore == InitStore /\ [][NextStore]_vars

----------------------------------------------------------------------------
(* The handlers over a database file whose header text was damaged *)

\* TEXT that json.loads rejects (cut short, or written by another tool)
Damaged == [valid |-> FALSE, value |-> NoHeaders]

HeaderColumns == {"headers", "response_headers"}

\* the row with the named header columns holding damaged text
Damage(row, columns) ==
    [c \in DOMAIN row |-> IF c \in columns THEN Damaged ELSE row[c]]

\* the table holds one exchange, stored at time 0 under id 1, and the text
\* of at least one of its header columns is no longer JSON
InitLegacy ==
    \E x \in StoreExchanges, columns \in SUBSET HeaderColumns \ {{}} :
        /\ impl \in Impls
        /\ now = MaxClock
        /\ metadata = [f \in Flows |-> <<>>]
        /\ phase = [f \in Flows |-> "idle"]
        /\ requests = {Damage(NewRow(impl, 1, 0, x.req, x.resp, x.duration), columns)}
        /\ sqlite_sequence = 1
        /\ flowlog = [f \in Flows |-> NoLog]
        /\ hooks = 0
        /\ reply = [op |-> "none"]
        /\ scan = NoScan

NextLegacy ==
    \/ \E request_id \in RequestIds : ProxyManager_analyze_request(request_id)
    \/ \E request_id \in RequestIds : CopilotAPIServer_analyze_request(request_id)
    \/ \E request_id \in RequestIds : get_request_detail(request_id)
    \/ \E request_id \in RequestIds : replay_request(request_id)
    \/ \E request_id \in RequestIds, modifications \in Modifications :
          modify_and_replay(request_id, modifications)
    \/ export_har
    \/ \E limit \in CliLimits, only_zybooks \in BOOLEAN :
          TrafficAnalyzerCLI_export_har(limit, only_zybooks)
    \/ clear_traffic

SpecLegacy == InitLegacy /\ [][NextLegacy]_vars

----------------------------------------------------------------------------
(* Session-wide reports *)

ScanLimit == 100

\* set(s) of a list
ToSet(s) == { s[i] : i \in 1..Len(s) }

\* CopilotAPIServer.security_scan, lines 99-108: the ids of the window are
\* selected and the connection is closed
security_scan_select ==
    /\ ~scan.running
    /\ \E rows \in SelectOrdered(requests, TRUE, ScanLimit) :
          IF rows = <<>>
          THEN /\ reply' = [op |-> "security_scan", status |-> 200, success |-> TRUE,
                            total_issues |-> 0, unique_issues |-> 0,
                            high_risk_requests |-> <<>>, all_issues |-> {}]
               /\ UNCHANGED scan
          ELSE /\ scan' = [running |-> TRUE,
                           pending |-> [i \in 1..Len(rows) |-> rows[i].id],
                           security_issues |-> <<>>, high_risk_requests |-> <<>>]
               /\ UNCHANGED reply
    /\ UNCHANGED <<impl, now, metadata, phase, requests, sqlite_sequence, flowlog, hooks>>

\* CopilotAPIServer.security_scan, one turn of the loop of lines 110-122:
\* the agent opens its own connection and fetches the row again; after the
\* last id, or when the agent raises, the handler answers
security_scan_analyze ==
    LET request_id == Head(scan.pending)
        analysis == CopilotAgent_analyze_request(requests, request_id)
        security_issues == scan.security_issues \o analysis.vulnerabilities
        high_risk_requests ==
            scan.high_risk_requests
            \o (IF analysis.security_score < 70
                THEN <<[request_id |-> request_id, score |-> analysis.security_score,
                        issues |-> analysis.vulnerabilities]>>
                ELSE <<>>)
    IN  /\ scan.running
        /\ IF analysis.raised # ""
           THEN /\ reply' = [op |-> "security_scan", status |-> 500, success |-> FALSE,
                             error |-> analysis.raised]
                /\ scan' = NoScan
           ELSE IF Tail(scan.pending) = <<>>
           THEN /\ reply' = [op |-> "security_scan", status |-> 200, success |-> TRUE,
                             total_issues |-> Len(security_issues),
                             unique_issues |-> Cardinality(ToSet(security_issues)),
                             high_risk_requests |-> high_risk_requests,
                             all_issues |-> ToSet(security_issues)]
                /\ scan' = NoScan
           ELSE /\ scan' = [running |-> TRUE, pending |-> Tail(scan.pending),
                            security_issues |-> security_issues,
                            high_risk_requests |-> high_risk_requests]
                /\ UNCHANGED reply
        /\ UNCHANGED <<impl, now, metadata, phase, requests, sqlite_sequence, flowlog, hooks>>

\* sorted(hosts.items(), key=lambda x: x[1], reverse=True)[:10]: the sort is
\* stable, so hosts of equal count stay in the order they were first seen
RECURSIVE top_hosts(_, _, _)
top_hosts(rows, left, n) ==
    IF left = {} \/ n = 0 THEN <<>>
    ELSE LET count(h) == Cardinality({ i \in DOMAIN rows : rows[i].host = h })
             seen(h) == CHOOSE i \in 1..Len(rows) :
                           rows[i].host = h /\ \A j \in 1..(i - 1) : rows[j].host # h
             h == CHOOSE g \in left : \A k \in left :
                     count(g) > count(k) \/ (count(g) = count(k) /\ seen(g) <= seen(k))
         IN  <<[host |-> h, count |-> count(h)]>> \o top_hosts(rows, left \ {h}, n - 1)

\* CopilotAgent._generate_session_recommendations
_generate_session_recommendations(rows) ==
    LET http_count == Cardinality({ i \in DOMAIN rows : rows[i].protocol = "http" })
        failed_count == Cardinality({ i \in DOMAIN rows : rows[i].response_status >= 400 })
        slow_count == Cardinality({ i \in DOMAIN rows : rows[i].duration > 2 })
    IN  (IF http_count > 0 THEN <<[about |-> "insecure HTTP", n |-> http_count]>> ELSE <<>>)
        \o (IF failed_count * 10 > Len(rows)
            THEN <<[about |-> "High failure rate", n |-> failed_count]>> ELSE <<>>)
        \o (IF slow_count > 0 THEN <<[about |-> "slow requests", n |-> slow_count]>> ELSE <<>>)

\* CopilotAgent.analyze_session behind CopilotAPIServer.analyze_session; the
\* average is kept as the fraction total duration / total requests
analyze_session(limit) ==
    /\ \E rows \in SelectOrdered(requests, TRUE, limit) :
          reply' =
            IF rows = <<>>
            THEN [op |-> "analyze_session", status |-> 200, success |-> TRUE,
                  message |-> "No traffic to analyze"]
            ELSE [op |-> "analyze_session", status |-> 200, success |-> TRUE,
                  limit |-> limit,
                  total_requests |-> Len(rows),
                  avg_response_time_ms |->
                      [num |-> 1000 * (LET sum[i \in 0..Len(rows)] ==
                                              IF i = 0 THEN 0 ELSE sum[i - 1] + rows[i].duration
                                       IN  sum[Len(rows)]),
                       den |-> Len(rows)],
                  unique_hosts |-> Cardinality({ rows[i].host : i \in 1..Len(rows) }),
                  security_issues_found |->
                      Cardinality({ i \in DOMAIN rows : rows[i].protocol = "http" }),
                  methods |-> [m \in { rows[i].method : i \in 1..Len(rows) } |->
                                 Cardinality({ i \in DOMAIN rows : rows[i].method = m })],
                  status_codes |->
                      [c \in { rows[i].response_status : i \in 1..Len(rows) } \ {0} |->
                         Cardinality({ i \in DOMAIN rows : rows[i].response_status = c })],
                  top_hosts |-> top_hosts(rows, { rows[i].host : i \in 1..Len(rows) }, 10),
                  recommendations |-> _generate_session_recommendations(rows)]
    /\ UNCHANGED <<impl, now, metadata, phase, requests, sqlite_sequence, flowlog, hooks, scan>>

\* the tables of the store with the header text of at most one row damaged
SessionTables(which) ==
    StoreTables(which)
    \cup UNION { { (table \ {row}) \cup {Damage(row, columns)} :
                     row \in table, columns \in SUBSET HeaderColumns \ {{}} } :
                 table \in StoreTables(which) }

\* the report handlers start on a database file written by earlier runs,
\* while the delete handler of the proxy's web interface serves its own callers
InitSession ==
    /\ impl = "proxy_server"
    /\ now = MaxClock
    /\ metadata = [f \in Flows |-> <<>>]
    /\ phase = [f \in Flows |-> "idle"]
    /\ requests \in SessionTables(impl)
    /\ sqlite_sequence = Cardinality(requests)
    /\ flowlog = [f \in Flows |-> NoLog]
    /\ hooks = 0
    /\ reply = [op |-> "none"]
    /\ scan = NoScan

\* values of "limit" in the body of POST /copilot/analyze/session
SessionLimits == {1, 100}

NextSession ==
    \/ security_scan_select
    \/ security_scan_analyze
    \/ \E limit \in SessionLimits : analyze_session(limit)
    \/ clear_traffic

SpecSession == InitSession /\ [][NextSession]_vars

----------------------------------------------------------------------------
(* Properties *)

\* the id given to flow f's exchange, and the row that holds it while present
HasId(f) == flowlog[f].id # <<>>
IdOf(f) == flowlog[f].id[1]
RowsOf(f) == { r \in requests : HasId(f) /\ r.id = IdOf(f) }

\* C1: no two rows of the table share an id, and every INSERT is given an id
\* strictly larger than every id given before it, also when the table was
\* emptied in between.
C1_IdsUniqueAndNeverReused ==
    /\ [](\A r, q \in requests : r.id = q.id => r = q)
    /\ [][\A r \in requests' \ requests :
            \A f \in Flows : HasId(f) => r.id > IdOf(f)]_vars

\* two inserts with a delete between them: the earlier row is gone, the later present
C1_Witness ==
    \E f, g \in Flows :
        /\ HasId(f) /\ HasId(g) /\ flowlog[f].order < flowlog[g].order
        /\ RowsOf(f) = {} /\ RowsOf(g) # {}

Columns ==
    {"id", "timestamp", "method", "url", "host", "path", "headers", "body",
     "response_status", "response_headers", "response_body", "duration", "protocol",
     "analyzed", "notes"}

\* C2: rows come from completed response hooks only: every row belongs to a
\* flow whose response hook stored it, a flow whose response hook has not
\* run (or failed) has no row, the number of rows ever inserted equals the
\* number of response hooks that completed, and every row has all columns.
C2_RowsOnlyFromResponses ==
    /\ \A r \in requests :
          /\ DOMAIN r = Columns
          /\ \E f \in Flows : phase[f] = "stored" /\ r \in RowsOf(f)
    /\ \A f \in Flows : phase[f] # "stored" => RowsOf(f) = {} /\ ~HasId(f)
    /\ \A f \in Flows : Cardinality(RowsOf(f)) <= 1
    /\ sqlite_sequence = Cardinality({ f \in Flows : phase[f] = "stored" })

\* one flow has been requested and is still waiting, another has been stored
C2_Witness ==
    \E f, g \in Flows :
        /\ phase[f] = "started" /\ phase[g] = "stored"
        /\ Cardinality(requests) = 1 /\ RowsOf(g) = requests

\* C3: a flow's recorded start time is the one its own request hook wrote,
\* whatever the other flows' hooks did, and the duration stored for it is
\* its own response arrival time minus that start time.
C3_DurationsDoNotInterfere ==
    /\ \A f \in Flows : metadata[f] = flowlog[f].requested
    /\ \A f \in Flows : \A r \in RowsOf(f) :
          flowlog[f].requested # <<>> =>
              r.duration = flowlog[f].arrival[1] - flowlog[f].requested[1]

\* two flows interleaved (f requested first, g answered first), both stored,
\* with different durations
C3_Witness ==
    \E f, g \in Flows : \E r \in RowsOf(f), q \in RowsOf(g) :
        /\ flowlog[f].requested # <<>> /\ flowlog[g].requested # <<>>
        /\ flowlog[f].requested[1] < flowlog[g].requested[1]
        /\ flowlog[g].order < flowlog[f].order
        /\ r.duration # q.duration

\* C4: ids follow the order in which the responses arrived: of two stored
\* flows, the one whose response hook ran first has the smaller id.
C4_IdsFollowResponseOrder ==
    \A f, g \in Flows :
        (HasId(f) /\ HasId(g) /\ flowlog[f].order < flowlog[g].order) => IdOf(f) < IdOf(g)

\* g was requested before f, but f's response arrived first; both stored
C4_Witness ==
    \E f, g \in Flows :
        /\ HasId(f) /\ HasId(g) /\ flowlog[f].order < flowlog[g].order
        /\ flowlog[f].requested # <<>> /\ flowlog[g].requested # <<>>
        /\ flowlog[g].requested[1] < flowlog[f].requested[1]

CapturedColumns == Columns \ {"analyzed", "notes"}
Captured(r) == [c \in CapturedColumns |-> r[c]]

\* C5: no handler changes a captured column of a row that stays in the
\* table; only analyzed and notes may differ from one state to the next.
C5_CapturedFieldsImmutable ==
    [][\A r \in requests : \A q \in requests' :
          r.id = q.id => Captured(q) = Captured(r)]_vars

\* an analysis pass has flagged the row
C5_Witness ==
    /\ reply.op = "ProxyManager.analyze_request"
    /\ \E r \in requests : r.analyzed /\ r.response_body.chars > 0

\* C6: every stored duration is >= 0.
C6_DurationNonNegative == \A r \in requests : r.duration >= 0

\* C7: every stored request body and response body is at most 1 MiB long.
C7_BodiesWithinCap ==
    \A r \in requests : r.body.chars <= SizeCap /\ r.response_body.chars <= SizeCap

\* what C8 says is stored for a captured response body
StoredAsClaimed(content, stored) ==
    IF content.size > SizeCap
    THEN stored.kind = "placeholder" /\ stored.shown = content.size /\ stored.tokens = <<>>
    ELSE stored = (IF content.size = 0 THEN EmptyText ELSE decode_ignore(content))

\* C8: the response hook stores a response body larger than the cap as a
\* placeholder showing the byte count and none of the content, and a body
\* within the cap as its decoded content.
C8_OversizeStoredAsPlaceholder ==
    [][\A f \in Flows, x \in Exchanges, d1 \in 0..1, d2 \in 0..1 :
          response(f, x.req, x.resp, d1, d2, "ok") =>
              \A r \in requests' \ requests : StoredAsClaimed(x.resp.content, r.response_body)]_vars

\* C9: the exchange of a flow whose start time was never recorded is stored
\* with duration exactly zero and a notes annotation.
C9_UnknownFlowZeroDurationAndNote ==
    \A f \in Flows : \A r \in RowsOf(f) :
        flowlog[f].requested = <<>> => r.duration = 0 /\ r.notes # Null

\* C10: whenever analyze answers for a stored exchange it succeeds, and the
\* score is max(0, 100 - 10 n) for the n vulnerabilities it returns.
C10_ScoreFromVulnerabilityCount ==
    (reply.op = "CopilotAPIServer.analyze_request"
       /\ \E r \in requests : r.id = reply.request_id)
    => /\ reply.success
       /\ reply.analysis.security_score
            = Max(0, 100 - 10 * Len(reply.analysis.vulnerabilities))

\* an analysis with vulnerabilities and with recommendations
C10_Witness ==
    /\ reply.op = "CopilotAPIServer.analyze_request"
    /\ reply.success
    /\ Len(reply.analysis.vulnerabilities) >= 6
    /\ Len(reply.analysis.recommendations) >= 3

\* the exchange of the login scenario: GET http://example.com/login?password=123
\* over http, empty request body, no Authorization header, no security
\* header in the response
IsLoginScenario(r) ==
    /\ r.method = "GET"
    /\ r.url = <<"http://example.com", "/login", "?", "password", "=123">>
    /\ r.protocol = "http"
    /\ r.body = EmptyText
    /\ "authorization" \notin LowerKeys(json_loads(r.headers))
    /\ LowerKeys(json_loads(r.response_headers))
         \cap {"strict-transport-security", "x-content-type-options", "x-frame-options"} = {}

\* the reply is the analysis of row r
AnalysisOf(r) ==
    /\ reply.op = "CopilotAPIServer.analyze_request"
    /\ reply.request_id = r.id

\* C11: analyzing the login scenario yields exactly five findings (sensitive
\* data in URL, insecure HTTP, one per missing security header) and score 50.
C11_LoginScenarioFiveFindings ==
    \A r \in requests :
        (AnalysisOf(r) /\ IsLoginScenario(r)) =>
            /\ reply.success
            /\ Len(reply.analysis.vulnerabilities) = 5
            /\ { reply.analysis.vulnerabilities[i] : i \in 1..5 } =
                 { "Sensitive data detected in URL (should use POST body instead)",
                   "Insecure HTTP protocol (should use HTTPS)",
                   "Missing HSTS header (Strict-Transport-Security)",
                   "Missing X-Content-Type-Options header",
                   "Missing X-Frame-Options header (clickjacking protection)" }
            /\ reply.analysis.security_score = 50

\* the login scenario has been analyzed
C11_Witness ==
    \E r \in requests : AnalysisOf(r) /\ IsLoginScenario(r) /\ reply.success

\* the score analyze gives to an exchange, and its penalty
Score(r) == CopilotAgent_analyze_request({r}, r.id).security_score
Penalty(r) == 100 - Score(r)

\* a dict without the keys that lower-case to one of the given names
Without(d, names) == [k \in { h \in DOMAIN d : Lower(h) \notin names } |-> d[k]]

\* the three headers of C12 as an HTTP/1.1 server spells them, and as HTTP/2 does
ServerSpellings ==
    { {"Strict-Transport-Security", "X-Frame-Options", "Content-Security-Policy"},
      {"strict-transport-security", "x-frame-options", "content-security-policy"} }

\* the exchange r with the given response headers added
WithResponseHeaders(r, extra) ==
    [r EXCEPT !.response_headers = json_dumps(extra @@ json_loads(r.response_headers))]

\* C12: for an exchange whose response lacks some of HSTS, X-Frame-Options
\* and CSP, the same exchange with the missing ones present (spelled as a
\* server sends them) has a strictly smaller penalty, or an equal one only
\* when the score is already 0.
C12_SecurityHeadersReducePenalty ==
    \A r \in requests :
        (AnalysisOf(r) /\ reply.success) =>
            \A names \in ServerSpellings :
                LET present == LowerKeys(json_loads(r.response_headers))
                    missing == { h \in names : Lower(h) \notin present }
                    E2 == WithResponseHeaders(r, Hdr(missing, "max-age=1"))
                IN  missing # {} =>
                        \/ Penalty(E2) < 100 - reply.analysis.security_score
                        \/ /\ Penalty(E2) = 100 - reply.analysis.security_score
                           /\ reply.analysis.security_score = 0

SecurityConditions == {"url", "hsts", "xcto", "xfo", "http", "basic", "sql", "xss"}

\* the exchange r changed so that it satisfies one more security condition
AddCondition(r, c) ==
    CASE c = "url" -> [r EXCEPT !.url = @ \o <<"password">>]
      [] c = "hsts" ->
           [r EXCEPT !.response_headers =
               json_dumps(Without(json_loads(@), {"strict-transport-security"}))]
      [] c = "xcto" ->
           [r EXCEPT !.response_headers =
               json_dumps(Without(json_loads(@), {"x-content-type-options"}))]
      [] c = "xfo" ->
           [r EXCEPT !.response_headers =
               json_dumps(Without(json_loads(@), {"x-frame-options"}))]
      [] c = "http" -> [r EXCEPT !.protocol = "http"]
      [] c = "basic" ->
           [r EXCEPT !.headers =
               json_dumps(BasicAuth @@ Without(json_loads(@), {"authorization"}))]
      [] c = "sql" ->
           [r EXCEPT !.body = [kind |-> "text", chars |-> @.chars + 7,
                               tokens |-> @.tokens \o <<"select ">>, shown |-> 0]]
      [] c = "xss" ->
           [r EXCEPT !.body = [kind |-> "text", chars |-> @.chars + 7,
                               tokens |-> @.tokens \o <<"<script">>, shown |-> 0]]

\* C13: an exchange changed to satisfy one more security condition never
\* scores higher than the exchange itself.
C13_ScoreMonotonic ==
    \A r \in requests :
        (AnalysisOf(r) /\ reply.success) =>
            \A c \in SecurityConditions :
                Score(AddCondition(r, c)) <= reply.analysis.security_score

\* an analyzed exchange over https to which every condition can still be
\* added, each lowering the score
C13_Witness ==
    \E r \in requests :
        /\ AnalysisOf(r) /\ reply.success
        /\ r.protocol = "https"
        /\ \A c \in SecurityConditions :
              Score(AddCondition(r, c)) < reply.analysis.security_score

\* C19: analyzing an id that is not in the table answers NotFound (404) on
\* every analysis entry point and leaves the table unchanged.
C19_AnalyzeMissingIdNotFound ==
    [][\A request_id \in RequestIds :
          ((ProxyManager_analyze_request(request_id)
              \/ CopilotAPIServer_analyze_request(request_id))
           /\ SelectById(requests, request_id) = {})
          => (reply'.status = 404 /\ requests' = requests)]_vars

\* the handlers that list stored exchanges, and the sequence a reply lists
ListOps == {"get_requests", "query_requests", "list_requests", "search"}
Answered(rep) == rep.op \in ListOps /\ (rep.op = "query_requests" => rep.success)
Listed(rep) == IF rep.op \in {"get_requests", "query_requests"} THEN rep.requests ELSE rep.rows

\* the reply of a handler that has just deleted every row
Deleted(rep) ==
    \/ rep.op = "clear_traffic"
    \/ rep.op = "clear_database" /\ rep.status = "cleared"

\* C14: whatever was stored before, a list or search that runs directly after
\* a delete-all (nothing can have been inserted in between) answers with the
\* empty sequence for every accepted filter, and the counts reported by the
\* query endpoint and by the statistics are 0.
C14_DeleteAllEmptiesListAndCount ==
    [][Deleted(reply) =>
          /\ Answered(reply') => Listed(reply') = <<>>
          /\ reply'.op \in {"query_requests", "list_requests", "search"} /\ Answered(reply')
                => reply'.count = 0
          /\ reply'.op = "get_stats" => reply'.total = 0 /\ reply'.unique_hosts = 0]_vars

\* rows had been stored, all were deleted, and a list was then answered
C14_Witness ==
    /\ Answered(reply) /\ Listed(reply) = <<>>
    /\ requests = {} /\ sqlite_sequence = MaxRows

\* a list that was asked for without any filter, and the limit it ran with
Unfiltered(rep) ==
    \/ rep.op = "get_requests"
    \/ rep.op = "list_requests" /\ ~Truthy(rep.args.host) /\ ~rep.args.zybooks
    \/ /\ rep.op = "query_requests" /\ rep.success
       /\ ~Truthy(rep.args.method) /\ ~Truthy(rep.args.status) /\ ~Truthy(rep.args.host)
LimitOf(rep) ==
    CASE rep.op = "get_requests" -> ListLimit
      [] rep.op = "list_requests" -> rep.args.limit
      [] rep.op = "search" -> SearchLimit
      [] rep.op = "query_requests" ->
           IF rep.args.limit = Null THEN 100 ELSE IntOf[rep.args.limit]

\* the stored rows a reply lists, by id
ListedRows(rep) ==
    { r \in requests : \E i \in 1..Len(Listed(rep)) : Listed(rep)[i].id = r.id }

\* every listed entry shows a stored row as stored, and none twice
ListsStoredRows(rep) ==
    LET s == Listed(rep)
    IN  /\ \A i \in 1..Len(s) :
              \E r \in requests : \A c \in DOMAIN s[i] : s[i][c] = r[c]
        /\ \A i, j \in 1..Len(s) : i # j => s[i].id # s[j].id

\* C18: a list without a filter shows stored exchanges newest first
\* (timestamps never increase along it); with a limit L >= 0 it shows
\* min(L, number stored) of them, and no exchange left out is newer than
\* one shown.
C18_ListNewestFirstWithinLimit ==
    Unfiltered(reply) =>
        LET s == Listed(reply)
            L == LimitOf(reply)
            n == Cardinality(requests)
        IN  /\ ListsStoredRows(reply)
            /\ \A i, j \in 1..Len(s) : i < j => s[i].timestamp >= s[j].timestamp
            /\ L >= 0 => Len(s) = (IF L < n THEN L ELSE n)
            /\ \A r \in requests \ ListedRows(reply) :
                  \A i \in 1..Len(s) : r.timestamp <= s[i].timestamp

\* two exchanges of different age are stored and a list limited to one was answered
C18_Witness ==
    /\ reply.op = "list_requests" /\ Unfiltered(reply) /\ reply.args.limit = 1
    /\ Len(reply.rows) = 1
    /\ \E r \in requests : r.timestamp < reply.rows[1].timestamp

\* the stored rows that satisfy every predicate a query supplied; a
\* predicate that was not supplied lets every row through
Supplied(v) == v # Null /\ v # ""
ByMethod(a) == IF Supplied(a.method) THEN { r \in requests : r.method = a.method } ELSE requests
ByStatus(a) ==
    IF Supplied(a.status) THEN { r \in requests : r.response_status = IntOf[a.status] }
    ELSE requests
ByHost(a) ==
    IF Supplied(a.host) THEN { r \in requests : Lower(a.host) \in HostParts(r.host) }
    ELSE requests
Satisfying(a) == ByMethod(a) \cap ByStatus(a) \cap ByHost(a)

Exported(rep) == rep.op \in {"export_har", "cli_export_har"} /\ "entries" \in DOMAIN rep
ExportFilter(rep) ==
    IF rep.op = "cli_export_har" /\ rep.args.zybooks
    THEN { r \in requests : "zybooks" \in HostParts(r.host) }
    ELSE requests

\* C15 as stated: every exported HAR log has as many entries as there are
\* stored exchanges matching the filter the export used.
C15_HarEntriesEqualFilterCount ==
    Exported(reply) => Len(reply.entries) = Cardinality(ExportFilter(reply))

\* C15 amended: the API export has one entry per stored exchange; the
\* command-line export has min(limit, number matching its filter) entries,
\* and one per matching exchange when the limit is negative.
C15_HarEntriesWithinLimit ==
    Exported(reply) =>
        LET n == Cardinality(ExportFilter(reply))
        IN  IF reply.op = "export_har" THEN Len(reply.entries) = n
            ELSE LET L == reply.args.limit
                 IN  /\ Len(reply.entries) = (IF L < 0 \/ n <= L THEN n ELSE L)
                     /\ reply.exported = Len(reply.entries)

\* a command-line export limited to one entry was made of a store holding
\* more than one matching exchange
C15_Witness ==
    /\ reply.op = "cli_export_har" /\ Exported(reply)
    /\ reply.args.limit = 1 /\ Len(reply.entries) = 1
    /\ Cardinality(ExportFilter(reply)) > 1

\* the stored rows a search for the given words has to show: the text is in
\* the url, the request body or the response body (letters compared without
\* case, as LIKE does), and the host passes every host filter asked for
TextHit(r, q) ==
    \E text \in {r.url, r.body.tokens, r.response_body.tokens} :
        \E i \in 1..Len(text) : Lower(text[i]) = Lower(q)
SearchHits(a) ==
    { r \in requests :
        /\ TextHit(r, a.query)
        /\ Supplied(a.host) => Lower(a.host) \in HostParts(r.host)
        /\ a.zybooks => "zybooks" \in HostParts(r.host) }

\* C17: a search shows exactly the stored exchanges whose url, request body
\* or response body contains the query and whose host passes every host
\* filter in force: the host text given with --host and, when the
\* target-domain flag is set, the target domain.
C17_SearchAndsHostFilters ==
    reply.op = "search" =>
        /\ ListsStoredRows(reply)
        /\ ListedRows(reply) = SearchHits(reply.args)

\* the row as it reads when damaged header text stands for an empty mapping
Recovered(row) ==
    [c \in DOMAIN row |->
        IF c \in HeaderColumns /\ ~row[c].valid THEN json_dumps(NoHeaders) ELSE row[c]]

\* C20: analysing a stored exchange whose request-header or response-header
\* text is not JSON succeeds, and the analysis is the one the same exchange
\* gets with an empty mapping in place of the damaged text; the caller sees
\* no decoding failure.
C20_DamagedHeadersReadAsEmpty ==
    \A r \in requests :
        (\E c \in HeaderColumns : ~r[c].valid) =>
            /\ reply.op = "CopilotAPIServer.analyze_request" /\ reply.request_id = r.id
                  => /\ reply.status = 200 /\ reply.success
                     /\ LET expected == RequestAnalysis(r.id, Recovered(r))
                        IN  /\ reply.analysis.security_score = expected.security_score
                            /\ reply.analysis.vulnerabilities = expected.vulnerabilities
                            /\ reply.analysis.recommendations = expected.recommendations
            /\ reply.op = "ProxyManager.analyze_request" /\ reply.status # 404
                  => reply.status = 200

\* a stored row whose header text is not JSON, and the rows that are sound
Corrupted(r) == \E c \in HeaderColumns : ~r[c].valid
Sound(table) == { r \in table : ~Corrupted(r) }

\* the findings of all the given rows together
RECURSIVE FindingsOf(_)
FindingsOf(rows) ==
    IF rows = {} THEN 0
    ELSE LET r == CHOOSE q \in rows : TRUE
         IN  Len(RequestAnalysis(r.id, r).vulnerabilities) + FindingsOf(rows \ {r})

\* C21: a security scan or a session analysis of a window (here the whole
\* table, which no delete has touched) holding exactly one corrupted
\* exchange besides sound ones succeeds, and its report covers the sound
\* exchanges and leaves the corrupted one out of its totals.
C21_ReportSkipsCorruptedExchange ==
    Cardinality(requests \ Sound(requests)) = 1 /\ Sound(requests) # {} =>
        /\ reply.op = "security_scan"
              => reply.success /\ reply.total_issues = FindingsOf(Sound(requests))
        /\ reply.op = "analyze_session" /\ reply.limit = 100
              => reply.success /\ reply.total_requests = Cardinality(Sound(requests))

\* C22: a response hook that could not persist its exchange (sqlite failed
\* at connect, insert or commit) ended inside the hook, with the failure
\* caught and no row added for its flow; a flow whose hook ran later and
\* met no failure has its row.
C22_StorageFailureStaysInHook ==
    \A f \in Flows :
        /\ flowlog[f].arrival # <<>> /\ phase[f] # "stored"
              => phase[f] = "dropped" /\ ~HasId(f) /\ RowsOf(f) = {}
        /\ phase[f] = "stored" => HasId(f)

\* the answers that confirm the deletion: the word yes, in any letter case
Confirming == {"yes", "YES"}

\* C23: the command-line clear deletes the stored exchanges when the answer
\* to its question is the word yes, and for every other answer (no, y, an
\* empty line) it leaves every row of the store as it was and reports that
\* nothing was done.
C23_ClearOnlyAfterConfirmation ==
    [][\A answer \in Answers :
          reply'.op = "clear_database" /\ clear_database(answer) =>
              IF answer \in Confirming
              THEN requests' = {} /\ reply'.status = "cleared"
              ELSE requests' = requests /\ reply'.status = "cancelled"]_vars

\* the question was answered with something else than yes and the rows are still there
C23_Witness ==
    /\ reply.op = "clear_database" /\ reply.status = "cancelled"
    /\ Cardinality(requests) = MaxRows

\* the flows that hold a start-time entry, and the flows still in flight
\* (request hook done, response hook not yet run)
Retained == { f \in Flows : metadata[f] # <<>> }
InFlight == { f \in Flows : phase[f] = "started" }

\* C24: a start-time entry is held only for flows still in flight: once
\* the response hook of a flow has run its entry is gone, so there are
\* never more entries than flows in flight.
C24_StartTimesOnlyForFlowsInFlight ==
    /\ Retained \subseteq InFlight
    /\ Cardinality(Retained) <= Cardinality(InFlight)

\* C25: a security scan that runs while exchanges are being deleted works
\* on the exchanges it selected: it never fails for want of a row that was
\* there when it made its selection, and while it is under way every id it
\* has yet to analyse is still to be found.
C25_ScanWorksOnOneSnapshot ==
    /\ reply.op = "security_scan" /\ ~reply.success
          => reply.error # "ValueError: Request not found"
    /\ scan.running =>
          \A i \in 1..Len(scan.pending) : SelectById(requests, scan.pending[i]) # {}

\* every captured column of the row holds what the one exchange delivered
FromExchange(r, x) ==
    /\ r.method = x.req.method /\ r.url = x.req.url /\ r.host = x.req.host
    /\ r.path = x.req.path /\ r.protocol = x.req.scheme
    /\ r.headers = [valid |-> TRUE, value |-> x.req.headers]
    /\ r.body.tokens \in {x.req.content.tokens, <<>>}
    /\ r.response_status = x.resp.status_code
    /\ r.response_headers = [valid |-> TRUE, value |-> x.resp.headers]
    /\ r.response_body.tokens \in {x.resp.content.tokens, <<>>}
    /\ r.response_body.kind = "placeholder" => r.response_body.shown = x.resp.content.size

\* C26: whatever the order in which response hooks insert and the delete
\* handler deletes, every row of the table has all its columns and all of
\* them from the exchange of one flow; a delete leaves the table empty, and
\* a row only ever enters the table as the one row of the response hook
\* that has just run, so after a delete the table holds the rows of the
\* hooks that ran after it and nothing else.
C26_RowsWholeUnderInterleaving ==
    /\ [](\A r \in requests : DOMAIN r = Columns /\ \E x \in Exchanges : FromExchange(r, x))
    /\ [][/\ hooks' = hooks /\ phase' = phase /\ now' = now => requests' = {}
          /\ hooks' # hooks =>
                /\ requests \subseteq requests'
                /\ \A r \in requests' \ requests :
                      \E f \in Flows : /\ flowlog'[f].order = hooks'
                                        /\ flowlog'[f].id = <<r.id>>
                                        /\ phase'[f] = "stored"
                /\ Cardinality(requests' \ requests) <= 1]_vars

\* a delete was served between two inserts: the earlier row is gone and the
\* table holds the row of the later hook alone
C26_Witness ==
    /\ reply.op = "clear_traffic"
    /\ sqlite_sequence = 2 /\ hooks = 2
    /\ \E r \in requests : r.id = 2 /\ requests = {r}

\* C27: the timestamp of a stored exchange whose request hook ran is the
\* time that hook recorded, so timestamp plus duration is the time at which
\* the response hook of the flow began.
C27_TimestampIsRequestStart ==
    \A f \in Flows : \A r \in RowsOf(f) :
        flowlog[f].requested # <<>> =>
            /\ r.timestamp = flowlog[f].requested[1]
            /\ r.timestamp + r.duration = flowlog[f].arrival[1]

\* C28: an exchange for which an analysis was returned, by the proxy's
\* handler or by the analysis API, has its analyzed flag set for as long as
\* its row exists.
C28_AnalyzedSetByEveryAnalysis ==
    reply.op \in {"ProxyManager.analyze_request", "CopilotAPIServer.analyze_request"}
    /\ reply.status = 200
    => \A r \in SelectById(requests, reply.request_id) : r.analyzed

\* a stored body stands for the whole of the content it was made from:
\* kept as text it has a character for every byte (an invalid byte being
\* replaced by a mark), otherwise it is flagged as an encoded body or is
\* the notice that says how large the body was
WholeBody(stored, content) ==
    content.invalid > 0 =>
        \/ stored.kind = "text" /\ stored.chars = content.size
        \/ stored.kind \in {"base64", "placeholder"}

\* C29: of a captured body that is not valid UTF-8 nothing is dropped
\* without a trace: the stored text has the invalid bytes replaced, or the
\* body is stored base64-encoded and flagged so.
C29_InvalidBytesNotDropped ==
    \A r \in requests : \A x \in Exchanges :
        FromExchange(r, x) =>
            /\ WholeBody(r.body, x.req.content)
            /\ WholeBody(r.response_body, x.resp.content)

\* the scores of zero to eight security findings
PossibleScores == { 100 - 10 * k : k \in 0..8 }

\* C30: the analysis of any stored exchange has at most eight security
\* findings, none of them twice, and a score among 20, 30, ..., 100; this
\* is also the score the analysis API answers with.
C30_ScoreBetween20And100 ==
    /\ \A r \in requests :
          LET analysis == RequestAnalysis(r.id, r)
          IN  /\ analysis.security_score \in PossibleScores
              /\ Len(analysis.vulnerabilities) <= 8
              /\ Cardinality(ToSet(analysis.vulnerabilities)) = Len(analysis.vulnerabilities)
    /\ reply.op = "CopilotAPIServer.analyze_request" /\ reply.success
          => reply.analysis.security_score \in PossibleScores

\* all eight findings fire for one exchange: the analysis answered with score 20
C30_Witness ==
    /\ reply.op = "CopilotAPIServer.analyze_request" /\ reply.success
    /\ reply.analysis.security_score = 20
    /\ Len(reply.analysis.vulnerabilities) = 8

====
